---- MODULE Spec2Model ----
(***************************************************************************)
(* Model of cargo-new-release: the commit-log parser (src/lib.rs and its   *)
(* older copy inside src/main.rs), the milestone tool                      *)
(* (src/bin/milestone.rs) and the release tool (src/main.rs).              *)
(*                                                                         *)
(* Text is modelled by TLA+ strings, one character per byte; every input   *)
(* is ASCII.  A u32 / u64 value is held as the sequence of its base-10      *)
(* limbs, because the values of interest (u32::MAX and above) exceed the    *)
(* integers of the checker.                                                *)
(* Byte offsets are 0-based as in the source; At(s, i) is byte i of s.     *)
(***************************************************************************)
EXTENDS Integers, Sequences, FiniteSets, TLC

\* ------------------------------------------------------------------------
\* Bounds of the model
\* ------------------------------------------------------------------------
MaxBlocks == 2

MaxHost == 3

\* ------------------------------------------------------------------------
\* str primitives (Rust core::str), on 0-based byte offsets
\* ------------------------------------------------------------------------
At(s, i) == SubSeq(s, i + 1, i + 1)

\* s[lo..hi], hi exclusive
Slice(s, lo, hi) == SubSeq(s, lo + 1, hi)

IsWhitespace(c) == c \in {" ", "\t", "\n", "\r"}

IsHex(c) == c \in {"0", "1", "2", "3", "4", "5", "6", "7", "8", "9",
                    "a", "b", "c", "d", "e", "f"}

IsDigit(c) == c \in {"0", "1", "2", "3", "4", "5", "6", "7", "8", "9"}

StartsWithAt(s, p, i) ==
    /\ i + Len(p) <= Len(s)
    /\ (p = "" \/ At(s, i) = At(p, 0))
    /\ Slice(s, i, i + Len(p)) = p

StartsWith(s, p) == StartsWithAt(s, p, 0)

EndsWith(s, p) == Len(p) <= Len(s) /\ Slice(s, Len(s) - Len(p), Len(s)) = p

RECURSIVE TrimStart(_)
TrimStart(s) ==
    IF Len(s) > 0 /\ IsWhitespace(At(s, 0)) THEN TrimStart(Slice(s, 1, Len(s))) ELSE s

RECURSIVE TrimEnd(_)
TrimEnd(s) ==
    IF Len(s) > 0 /\ IsWhitespace(At(s, Len(s) - 1))
    THEN TrimEnd(Slice(s, 0, Len(s) - 1))
    ELSE s

Trim(s) == TrimEnd(TrimStart(s))

Min(S) == CHOOSE i \in S : \A j \in S : i <= j

\* the least offset in lo..hi where p occurs in s, -1 if none
RECURSIVE FindIn(_, _, _, _)
FindIn(s, p, lo, hi) ==
    IF lo > hi THEN -1
    ELSE IF lo = hi THEN (IF StartsWithAt(s, p, lo) THEN lo ELSE -1)
    ELSE LET mid  == (lo + hi) \div 2
             left == FindIn(s, p, lo, mid)
         IN  IF left >= 0 THEN left ELSE FindIn(s, p, mid + 1, hi)

\* str::find from offset i: the least offset >= i where p occurs, -1 if none
FindFrom(s, p, i) == FindIn(s, p, i, Len(s) - Len(p))

Find(s, p) == FindFrom(s, p, 0)

Contains(s, p) == Find(s, p) >= 0

\* String::replace_range(lo..hi, with), hi exclusive
ReplaceRange(s, lo, hi, with) == Slice(s, 0, lo) \o with \o Slice(s, hi, Len(s))

\* str::lines: split at "\n", a final empty piece is dropped, and a "\r"
\* before the "\n" belongs to the terminator.
StripCr(l) == IF EndsWith(l, "\r") THEN Slice(l, 0, Len(l) - 1) ELSE l

RECURSIVE Lines(_)
Lines(s) ==
    IF s = "" THEN << >>
    ELSE LET nl == Find(s, "\n") IN
         IF nl < 0 THEN << StripCr(s) >>
         ELSE << StripCr(Slice(s, 0, nl)) >> \o Lines(Slice(s, nl + 1, Len(s)))

\* String::insert_str(idx, t)
InsertStr(s, idx, t) == Slice(s, 0, idx) \o t \o Slice(s, idx, Len(s))

\* str::split_whitespace().next(): the first whitespace-delimited token
RECURSIVE TokenEnd(_, _)
TokenEnd(s, i) ==
    IF i < Len(s) /\ ~IsWhitespace(At(s, i)) THEN TokenEnd(s, i + 1) ELSE i

FirstToken(s) == LET t == TrimStart(s) IN Slice(t, 0, TokenEnd(t, 0))

\* str::split_whitespace(): all the tokens
RECURSIVE Tokens(_)
Tokens(s) ==
    LET t == TrimStart(s) IN
    IF t = "" THEN << >>
    ELSE << Slice(t, 0, TokenEnd(t, 0)) >> \o Tokens(Slice(t, TokenEnd(t, 0), Len(t)))

\* ------------------------------------------------------------------------
\* Unsigned integers.  A value is held as its base-10 limbs, most significant
\* first and without leading zeros: 123 is <<1, 2, 3>>, 0 is <<0>>.
\* ------------------------------------------------------------------------
DigitChars == "0123456789"

DigitVal(c) == Find(DigitChars, c)

DigitChar(v) == At(DigitChars, v)

RECURSIVE Limbs(_)
Limbs(d) == IF d = "" THEN << >> ELSE << DigitVal(At(d, 0)) >> \o Limbs(Slice(d, 1, Len(d)))

RECURSIVE StripZeros(_)
StripZeros(n) == IF Len(n) > 1 /\ Head(n) = 0 THEN StripZeros(Tail(n)) ELSE n

\* a < b for values of equally many limbs
RECURSIVE LimbsLess(_, _)
LimbsLess(a, b) ==
    IF a = << >> THEN FALSE
    ELSE IF Head(a) /= Head(b) THEN Head(a) < Head(b)
    ELSE LimbsLess(Tail(a), Tail(b))

\* a <= max
Fits(a, max) == Len(a) < Len(max) \/ (Len(a) = Len(max) /\ ~LimbsLess(max, a))

\* u32::MAX = 4294967295
U32Max == << 4, 2, 9, 4, 9, 6, 7, 2, 9, 5 >>

\* str::parse::<u32> of a non-empty run of digits: the value, or an overflow error
ParseU32(d) ==
    LET n == StripZeros(Limbs(d)) IN
    IF Fits(n, U32Max) THEN [ok |-> TRUE, value |-> n] ELSE [ok |-> FALSE, value |-> << >>]

\* u64::MAX = 18446744073709551615
U64Max == << 1, 8, 4, 4, 6, 7, 4, 4, 0, 7, 3, 7, 0, 9, 5, 5, 1, 6, 1, 5 >>

\* n + 1
RECURSIVE Incr(_)
Incr(n) ==
    IF n = << >> THEN << 1 >>
    ELSE IF n[Len(n)] < 9 THEN SubSeq(n, 1, Len(n) - 1) \o << n[Len(n)] + 1 >>
    ELSE Incr(SubSeq(n, 1, Len(n) - 1)) \o << 0 >>

\* n - 1, for n > 0
RECURSIVE Decr(_)
Decr(n) ==
    IF n[Len(n)] > 0 THEN StripZeros(SubSeq(n, 1, Len(n) - 1) \o << n[Len(n)] - 1 >>)
    ELSE StripZeros(Decr(SubSeq(n, 1, Len(n) - 1)) \o << 9 >>)

\* u64 arithmetic of a release build: n + 1 and n - 1 wrap around
WrappingIncr(n) == IF n = U64Max THEN << 0 >> ELSE Incr(n)

WrappingDecr(n) == IF n = << 0 >> THEN U64Max ELSE Decr(n)

\* format!("{}", n) of an unsigned integer
RECURSIVE FormatUnsigned(_)
FormatUnsigned(n) ==
    IF n = << >> THEN "" ELSE DigitChar(Head(n)) \o FormatUnsigned(Tail(n))

\* ------------------------------------------------------------------------
\* The log parser: commits_in_log (src/lib.rs)
\* ------------------------------------------------------------------------
\* commit_re = "(?m)^commit "
CommitRe == "commit "

\* the offset of the first match at or after offset i, -1 if none: "^" holds
\* at offset 0 and after every "\n"
CommitReFind(log, i) ==
    IF i = 0 /\ StartsWith(log, CommitRe) THEN 0
    ELSE LET nl == FindFrom(log, "\n" \o CommitRe, IF i = 0 THEN 0 ELSE i - 1) IN
         IF nl < 0 THEN -1 ELSE nl + 1

\* Regex::split: the text between successive matches, first and last included
RECURSIVE SplitFrom(_, _)
SplitFrom(log, start) ==
    LET m == CommitReFind(log, start) IN
    IF m < 0 THEN << Slice(log, start, Len(log)) >>
    ELSE << Slice(log, start, m) >> \o SplitFrom(log, m + Len(CommitRe))

RECURSIVE NonEmptyCommits(_)
NonEmptyCommits(pieces) ==
    IF pieces = << >> THEN << >>
    ELSE (IF Trim(Head(pieces)) /= "" THEN << Head(pieces) >> ELSE << >>)
         \o NonEmptyCommits(Tail(pieces))

\* commit_re.split(&log).filter(|commit| !commit.trim().is_empty())
SplitCommits(log) == NonEmptyCommits(SplitFrom(log, 0))

\* IsMessageLine without the test for the leading space
IsMessageLine_AnyIndent(line) == Trim(line) /= ""

\* .filter(|line| !line.trim().is_empty() && line.starts_with(' '))
IsMessageLine(line) == Trim(line) /= "" /\ StartsWith(line, " ")

RECURSIVE TrimmedMessageLines(_)
TrimmedMessageLines(ls) ==
    IF ls = << >> THEN << >>
    ELSE (IF IsMessageLine(Head(ls)) THEN << Trim(Head(ls)) >> ELSE << >>)
         \o TrimmedMessageLines(Tail(ls))

\* commit.lines().filter(..).map(|line| line.trim())
MessageLines(commit) == TrimmedMessageLines(Lines(commit))

\* the end (exclusive) of the greedy run [0-9]* that starts at i
RECURSIVE DigitsEnd(_, _)
DigitsEnd(s, i) == IF i < Len(s) /\ IsDigit(At(s, i)) THEN DigitsEnd(s, i + 1) ELSE i

NoCapture == [group |-> 0, start |-> 0, end |-> 0]

\* MarkerAt with the capture "([0-9])": one digit instead of the whole run
MarkerAt_OneDigit(s, phrase, i) ==
    LET ds == i + Len(phrase) + 2 IN
    IF StartsWithAt(s, phrase \o " #", i) /\ DigitsEnd(s, ds) > ds
    THEN [group |-> 1, start |-> ds, end |-> ds + 1]
    ELSE NoCapture

\* "(?:Auto merge of|Merge pull request) #([0-9]+)" matched at offset i
MarkerAt(s, phrase, i) ==
    LET ds == i + Len(phrase) + 2 IN
    IF StartsWithAt(s, phrase \o " #", i) /\ DigitsEnd(s, ds) > ds
    THEN [group |-> 1, start |-> ds, end |-> DigitsEnd(s, ds)]
    ELSE NoCapture

\* ParenAt without the "$": "(#N)" anywhere in the line
ParenAt_Unanchored(s, i) ==
    LET ds == i + 2
        de == DigitsEnd(s, ds)
    IN  IF StartsWithAt(s, "(#", i) /\ de > ds /\ StartsWithAt(s, ")", de)
        THEN [group |-> 2, start |-> ds, end |-> de]
        ELSE NoCapture

\* "\(#([0-9]+)\)$" matched at offset i
ParenAt(s, i) ==
    LET ds == i + 2
        de == DigitsEnd(s, ds)
    IN  IF StartsWithAt(s, "(#", i) /\ de > ds /\ StartsWithAt(s, ")", de) /\ de + 1 = Len(s)
        THEN [group |-> 2, start |-> ds, end |-> de]
        ELSE NoCapture

\* merge_re at offset i: the alternatives in the order of the pattern
MergeReAt(s, i) ==
    IF MarkerAt(s, "Auto merge of", i).group = 1 THEN MarkerAt(s, "Auto merge of", i)
    ELSE IF MarkerAt(s, "Merge pull request", i).group = 1
         THEN MarkerAt(s, "Merge pull request", i)
         ELSE ParenAt(s, i)

\* the match of merge_re that starts leftmost in lo..hi; group 0 stands for None
RECURSIVE MergeReIn(_, _, _)
MergeReIn(s, lo, hi) ==
    IF lo > hi THEN NoCapture
    ELSE IF lo = hi THEN MergeReAt(s, lo)
    ELSE LET mid  == (lo + hi) \div 2
             left == MergeReIn(s, lo, mid)
         IN  IF left.group /= 0 THEN left ELSE MergeReIn(s, mid + 1, hi)

\* merge_re.captures(first)
MergeReCaptures(s) == MergeReIn(s, 0, Len(s) - 1)

PullUrl == "https://github.com/rust-lang/cargo/pull/"

\* Description with the exclusive range (start - 2)..end, which keeps the ")"
Description_ExclusiveEnd(first, lines, cap) ==
    IF cap.group = 1
    THEN (IF Len(lines) >= 2 THEN lines[2] ELSE "")
    ELSE TrimEnd(ReplaceRange(first, cap.start - 2, cap.end, ""))

\* the description of a commit whose first line matched with capture cap
Description(first, lines, cap) ==
    IF cap.group = 1
    THEN (IF Len(lines) >= 2 THEN lines[2] ELSE "")
    ELSE TrimEnd(ReplaceRange(first, cap.start - 2, cap.end + 1, ""))

\* The closure of filter_map, for one commit: a record (Some), a skip with a
\* diagnostic on stderr (None), or a panic.
ParseCommit(commit) ==
    LET hash  == FirstToken(commit)
        lines == MessageLines(commit)
    IN  IF lines = << >> THEN [kind |-> "panic", why |-> "auto"]
        ELSE LET first == lines[1]
                 cap   == MergeReCaptures(first)
             IN  IF cap.group = 0
                 THEN [kind |-> "skip", line |-> first, hash |-> hash]
                 ELSE LET num == ParseU32(Slice(first, cap.start, cap.end)) IN
                      IF ~num.ok THEN [kind |-> "panic", why |-> "digits only"]
                      ELSE [kind   |-> "record",
                            number |-> num.value,
                            url    |-> PullUrl \o FormatUnsigned(num.value),
                            descr  |-> Description(first, lines, cap)]

\* filter_map(..).collect() over the pieces, left to right; a panic ends it
RECURSIVE CollectCommits(_, _)
CollectCommits(pieces, acc) ==
    IF pieces = << >> THEN acc
    ELSE LET r == ParseCommit(Head(pieces)) IN
         IF r.kind = "panic" THEN [acc EXCEPT !.panicked = TRUE]
         ELSE IF r.kind = "skip"
              THEN CollectCommits(Tail(pieces),
                                  [acc EXCEPT !.skipped = Append(@, [line |-> r.line,
                                                                     hash |-> r.hash])])
              ELSE CollectCommits(Tail(pieces),
                                  [acc EXCEPT !.records = Append(@, [number |-> r.number,
                                                                     url    |-> r.url,
                                                                     descr  |-> r.descr])])

\* commits_in_log(log)
CommitsInLog(text) ==
    CollectCommits(SplitCommits(text),
                   [panicked |-> FALSE, records |-> << >>, skipped |-> << >>])

\* The same closure in the release tool's older copy of the parser
\* (find_prs, src/main.rs): only "Auto merge of #N" is recognised and an
\* unmatched first line is an Err, which ends the collect.
AutoMergeRe == "Auto merge of"

\* auto_merge_re = "Auto merge of #([0-9]+)" matched at offset i
AutoMergeReAt(s, i) == MarkerAt(s, AutoMergeRe, i)

\* the match of auto_merge_re that starts leftmost in lo..hi
RECURSIVE AutoMergeReIn(_, _, _)
AutoMergeReIn(s, lo, hi) ==
    IF lo > hi THEN NoCapture
    ELSE IF lo = hi THEN AutoMergeReAt(s, lo)
    ELSE LET mid  == (lo + hi) \div 2
             left == AutoMergeReIn(s, lo, mid)
         IN  IF left.group /= 0 THEN left ELSE AutoMergeReIn(s, mid + 1, hi)

\* auto_merge_re.captures(first)
AutoMergeReCaptures(s) == AutoMergeReIn(s, 0, Len(s) - 1)

FindPrsCommit(commit) ==
    LET hash  == FirstToken(commit)
        lines == MessageLines(commit)
    IN  IF lines = << >> THEN [kind |-> "panic", why |-> "auto"]
        ELSE LET first == lines[1]
                 cap   == AutoMergeReCaptures(first)
             IN  IF cap.group = 0
                 THEN [kind |-> "err", line |-> first, hash |-> hash]
                 ELSE LET num == ParseU32(Slice(first, cap.start, cap.end)) IN
                      IF ~num.ok THEN [kind |-> "panic", why |-> "number"]
                      ELSE [kind   |-> "record",
                            number |-> num.value,
                            url    |-> PullUrl \o FormatUnsigned(num.value),
                            descr  |-> IF Len(lines) >= 2 THEN lines[2] ELSE ""]

\* CommandExt::run_stdout on success: the captured output, trimmed
RunStdout(output) == Trim(output)

\* ------------------------------------------------------------------------
\* The commits a log query reports, and the text `git log` prints for them.
\* A commit is given by its parts, so that what the parser should find in the
\* text is known without parsing it:
\*   hash    the commit identifier printed after "commit "
\*   meta    the header lines (Merge:, Author:, Date:) and the blank line
\*   indent  the indentation of message lines; eol what precedes each "\n"
\*   kind    the shape of the first message line:
\*             "auto"    lead "Auto merge of #" digits tail
\*             "mergepr" lead "Merge pull request #" digits tail
\*             "paren"   lead "(#" digits ")"
\*             "plain"   lead
\*             "none"    the commit has no message line
\*   number  the value the digits denote
\*   more    the message lines after the first
\*   gap     raw text printed after every message line (blank lines, notes)
\* ------------------------------------------------------------------------
StdMeta == "Author: a\nDate: x\n\n"

Commit(hash, meta, indent, eol, kind, lead, digits, number, tail, more, gap) ==
    [hash |-> hash, meta |-> meta, indent |-> indent, eol |-> eol, kind |-> kind,
     lead |-> lead, digits |-> digits, number |-> number, tail |-> tail,
     more |-> more, gap |-> gap]

CommitMenu ==
    { Commit("abc", StdMeta, "    ", "", "auto", "", "123", << 1, 2, 3 >>,
             " - someone:feat, r=reviewer", << "Add new flag" >>, ""),
      Commit("0d1e", "Merge: 1a 2b\n" \o StdMeta, "    ", "\r", "mergepr", "", "007",
             << 7 >>, " from x/y", << >>, "\n\tTab\nNote\n   \n"),
      Commit("f00d", StdMeta, "  ", "", "auto", "Revert \"", "4294967295", U32Max,
             "\" (#5)", << "- item (#6)", "third" >>, "\n"),
      Commit("beef", StdMeta, "    ", "", "auto", "", "4294967296", << >>,
             " - overflow", << "x" >>, ""),
      Commit("5ca1e", StdMeta, "    ", " ", "paren", "Fix the thing ", "42", << 4, 2 >>,
             "", << "body text" >>, "\n"),
      Commit("7e57", StdMeta, " ", "", "paren", "", "8", << 8 >>, "", << >>, ""),
      Commit("c0de", StdMeta, "    ", "", "paren", "Fix (#1) again\t ", "0900",
             << 9, 0, 0 >>, "", << "Auto merge of #2" >>, ""),
      Commit("d00d", StdMeta, "    ", "", "paren", "Fix foo", "12", << 1, 2 >>,
             "", << >>, ""),
      Commit("fee1", StdMeta, "    ", "", "plain", "Bump version", "", << >>,
             "", << "Auto merge of #77" >>, "\n"),
      Commit("ace", StdMeta, "    ", "", "plain", "Merge pull request from x (#3).", "",
             << >>, "", << >>, ""),
      Commit("dead", "Author: x\n\n\tTab only\n", "    ", "", "none", "", "", << >>,
             "", << >>, "") }

FirstText(c) ==
    CASE c.kind = "auto"    -> c.lead \o "Auto merge of #" \o c.digits \o c.tail
      [] c.kind = "mergepr" -> c.lead \o "Merge pull request #" \o c.digits \o c.tail
      [] c.kind = "paren"   -> c.lead \o "(#" \o c.digits \o ")"
      [] OTHER              -> c.lead

\* the message lines of a commit, as written by its author
MessageOf(c) == IF c.kind = "none" THEN << >> ELSE << FirstText(c) >> \o c.more

RECURSIVE RenderMessage(_, _)
RenderMessage(c, msg) ==
    IF msg = << >> THEN ""
    ELSE c.indent \o Head(msg) \o c.eol \o "\n" \o c.gap \o RenderMessage(c, Tail(msg))

RenderCommit(c) == "commit " \o c.hash \o "\n" \o c.meta \o RenderMessage(c, MessageOf(c))

\* the output of `git log` for a history, first commit first
RECURSIVE RenderLog(_)
RenderLog(h) == IF h = << >> THEN "" ELSE RenderCommit(Head(h)) \o "\n" \o RenderLog(Tail(h))

Histories == UNION { [1..n -> CommitMenu] : n \in 0..MaxBlocks }

\* ------------------------------------------------------------------------
\* The changelog: its text for a given list of pull requests it documents.
\* `notes` is further text of the last entry.
\* ------------------------------------------------------------------------
RECURSIVE RenderEntries(_)
RenderEntries(prs) ==
    IF prs = << >> THEN ""
    ELSE "- Old entry.\n  [#" \o FormatUnsigned(Head(prs)) \o "](" \o PullUrl
         \o FormatUnsigned(Head(prs)) \o ")\n" \o RenderEntries(Tail(prs))

AnchorLine(hash) ==
    "[" \o hash \o "...HEAD](https://github.com/rust-lang/cargo/compare/" \o hash
    \o "...HEAD)\n"

RenderChangelog(hash, prs, notes) ==
    "# Changelog\n\n## Cargo 1.80 (2024-07-25)\n" \o AnchorLine(hash)
    \o "\n### Added\n\n" \o RenderEntries(prs) \o notes

Range(seq) == { seq[i] : i \in 1..Len(seq) }

DocumentedMenu ==
    { [prs |-> << << 1, 2, 3 >> >>, notes |-> ""],
      [prs |-> << U32Max, << 4, 2 >> >>, notes |-> "  See #123 and (#123).\n"],
      [prs |-> << << 1, 2 >>, << 1, 2, 3, 4 >> >>, notes |-> "  Fixes [#123 ].\n"] }

\* ------------------------------------------------------------------------
\* State
\* ------------------------------------------------------------------------
VARIABLES
    parser,     \* which copy of the parser runs: "lib" (commits_in_log) or "main" (find_prs)
    history,    \* the commits of the range the log query covers
    documented, \* the pull requests the changelog documents, with trailing notes
    log,        \* the text the parser is given
    changelog,  \* find_prs: the changelog text the records are checked against
    commits,    \* the non-empty pieces of the split, in order
    at,         \* index in commits of the piece the iterator yields next
    records,    \* the records collected so far
    stderr,     \* the diagnostics printed so far
    outcome,    \* "start", "running", "returned", "panicked" or "error"
    err,        \* find_prs: the Err that ended the collect
    dupe,       \* find_prs: the partition's first half
    new,        \* find_prs: the partition's second half, the returned list
    tool,       \* the program that runs: "parser", "milestone" or "release"
    pc,         \* the tool's position in doit
    status,     \* how the latest subprocess invocation ended, "none" before any
    exit,       \* "running", "ok" (doit returned Ok), "error" (doit returned Err),
                \* "exit1" (process::exit(1)) or "panic"
    fault,      \* what ended the run, "" while it runs
    hostCount,  \* milestone: the number of host commits the log query listed
    hostAt,     \* milestone: the host commit the loop is at, from 1
    version,    \* milestone: the version label at hand
    queue,      \* milestone: the pull requests left in the loop at hand
    found,      \* milestone: determine_milestones' found
    to_milestone, \* milestone: version label -> pull requests queued for it
    tracker,    \* the issue tracker: its milestones and the milestone of each issue
    todo,       \* milestone: the labels set_milestones has yet to visit
    milestone_num, \* milestone: the number get_milestone_num returned
    reported,   \* the pull requests the tracker reported a milestone for
    patched,    \* the pull requests a PATCH was accepted for
    answer,     \* milestone: the answer to "Ready to milestone?", "none" before it
    requests,   \* milestone: the state-changing requests sent to the tracker, in order
    build,      \* release: how the crate was built, "debug" or "release"
    manifest,   \* release: the parts Cargo.toml was made of
    changelogParts, \* release: the parts CHANGELOG.md was made of
    cargoToml,  \* release: the text of the file Cargo.toml
    changelogMd, \* release: the text of the file CHANGELOG.md
    next_vers,  \* release: the version bump_version_toml returned
    last_beta_hash, \* release: prep_changelog's last_beta_hash
    draft,      \* release: prep_changelog's changelog, the text being edited
    master_prs, \* release: prep_changelog's master_prs
    beta_prs,   \* release: prep_changelog's beta_prs
    effects     \* release: what the run has done to the files and the repository

parserVars ==
    << parser, history, documented, log, changelog, commits, at, records, stderr, outcome,
       err, dupe, new >>

ctlVars == << tool, pc, status, exit, fault >>

milestoneVars ==
    << hostCount, hostAt, version, queue, found, to_milestone, tracker, todo,
       milestone_num, reported, patched, answer, requests >>

releaseData ==
    << build, manifest, changelogParts, cargoToml, changelogMd, next_vers, last_beta_hash, draft,
       master_prs, beta_prs >>

releaseVars == << releaseData, effects >>

toolVars == << ctlVars, milestoneVars, releaseVars >>

vars == << parserVars, toolVars >>

\* ------------------------------------------------------------------------
\* The issue tracker (api.github.com/repos/rust-lang/cargo).  Its milestones
\* are listed in a fixed order: `older` milestones with other titles first,
\* then `titles`; the number of a milestone is its place in the list.  The
\* milestone of an issue is a milestone number, 0 for none.
\* ------------------------------------------------------------------------
Pr123 == << 1, 2, 3 >>

Pr42 == << 4, 2 >>

Pr7 == << 7 >>

Issues == { Pr123, Pr42, Pr7 }

NoMilestones == [pr \in Issues |-> 0]

TrackerMenu ==
    { [older |-> 0, titles |-> << >>, issues |-> NoMilestones],
      [older |-> 0, titles |-> << "1.79.0", "1.81.0" >>,
       issues |-> [NoMilestones EXCEPT ![Pr123] = 2, ![Pr42] = 1]],
      [older |-> 99, titles |-> << "1.80.0", "1.81.0" >>,
       issues |-> [NoMilestones EXCEPT ![Pr7] = 100]] }

\* the title of milestone number n
TitleOf(t, n) == IF n > t.older THEN t.titles[n - t.older] ELSE "older"

TitleExists(t, title) == \E k \in 1..Len(t.titles) : t.titles[k] = title

\* the number of the milestone with this title
NumberOf(t, title) == t.older + Min({ k \in 1..Len(t.titles) : t.titles[k] = title })

IdleMilestone ==
    /\ hostCount = 0
    /\ hostAt = 0
    /\ version = ""
    /\ queue = << >>
    /\ found = FALSE
    /\ to_milestone = << >>
    /\ todo = {}
    /\ milestone_num = 0
    /\ reported = {}
    /\ patched = {}
    /\ answer = "none"
    /\ requests = << >>

IdleRelease ==
    /\ build = "none"
    /\ manifest = [pre |-> "", parts |-> << >>, post |-> ""]
    /\ changelogParts = [head |-> "", from |-> "", to |-> "", added |-> "", prs |-> << >>,
                         notes |-> ""]
    /\ cargoToml = ""
    /\ changelogMd = ""
    /\ next_vers = [ok |-> FALSE, major |-> << >>, minor |-> << >>, patch |-> << >>]
    /\ last_beta_hash = ""
    /\ draft = ""
    /\ master_prs = << >>
    /\ beta_prs = << >>
    /\ effects = << >>

IdleTools ==
    /\ tool = "parser"
    /\ pc = "idle"
    /\ status = "none"
    /\ exit = "running"
    /\ fault = ""
    /\ tracker = [older |-> 0, titles |-> << >>, issues |-> NoMilestones]
    /\ IdleMilestone
    /\ IdleRelease

IdleParser ==
    /\ parser = "none"
    /\ history = << >>
    /\ documented = [prs |-> << >>, notes |-> ""]
    /\ log = ""
    /\ changelog = ""
    /\ commits = << >>
    /\ at = 1
    /\ records = << >>
    /\ stderr = << >>
    /\ outcome = "idle"
    /\ err = [line |-> "", hash |-> ""]
    /\ dupe = << >>
    /\ new = << >>

NoErr == [line |-> "", hash |-> ""]

Diag(msg, line, hash, pr) == [msg |-> msg, line |-> line, hash |-> hash, pr |-> pr]

InitParser ==
    /\ IdleTools
    /\ parser \in {"lib", "main"}
    /\ history \in Histories
    /\ documented \in (IF parser = "main" THEN DocumentedMenu
                       ELSE {[prs |-> << >>, notes |-> ""]})
    /\ log = RunStdout(RenderLog(history))
    /\ changelog = IF parser = "main"
                   THEN RenderChangelog("b60a1555", documented.prs, documented.notes)
                   ELSE ""
    /\ commits = << >>
    /\ at = 1
    /\ records = << >>
    /\ stderr = << >>
    /\ outcome = "start"
    /\ err = NoErr
    /\ dupe = << >>
    /\ new = << >>

\* commit_re.split(&log).filter(..): the pieces the iterator will yield
SplitLog ==
    /\ outcome = "start"
    /\ commits' = SplitCommits(log)
    /\ outcome' = "running"
    /\ UNCHANGED toolVars
    /\ UNCHANGED << parser, history, documented, log, changelog, at, records, stderr, err,
                    dupe, new >>

Record(r) == [number |-> r.number, url |-> r.url, descr |-> r.descr]

\* commits_in_log: one turn of filter_map
CommitsInLogNext ==
    /\ parser = "lib"
    /\ outcome = "running"
    /\ at <= Len(commits)
    /\ LET r == ParseCommit(commits[at]) IN
         /\ records' = IF r.kind = "record" THEN Append(records, Record(r)) ELSE records
         /\ stderr' = IF r.kind = "skip"
                      THEN Append(stderr, Diag("could not find", r.line, r.hash, << >>))
                      ELSE stderr
         /\ outcome' = IF r.kind = "panic" THEN "panicked" ELSE outcome
         /\ at' = IF r.kind = "panic" THEN at ELSE at + 1
    /\ UNCHANGED toolVars
    /\ UNCHANGED << parser, history, documented, log, changelog, commits, err, dupe, new >>

\* commits_in_log: collect() ends, the Vec is returned
CommitsInLogReturn ==
    /\ parser = "lib"
    /\ outcome = "running"
    /\ at > Len(commits)
    /\ outcome' = "returned"
    /\ UNCHANGED toolVars
    /\ UNCHANGED << parser, history, documented, log, changelog, commits, at, records,
                    stderr, err, dupe, new >>

\* find_prs: one turn of map, collected into a Result
FindPrsNext ==
    /\ parser = "main"
    /\ outcome = "running"
    /\ at <= Len(commits)
    /\ LET r == FindPrsCommit(commits[at]) IN
         /\ records' = IF r.kind = "record" THEN Append(records, Record(r)) ELSE records
         /\ err' = IF r.kind = "err" THEN [line |-> r.line, hash |-> r.hash] ELSE err
         /\ outcome' = CASE r.kind = "panic" -> "panicked"
                         [] r.kind = "err"   -> "error"
                         [] OTHER            -> outcome
         /\ at' = IF r.kind = "record" THEN at + 1 ELSE at
    /\ UNCHANGED toolVars
    /\ UNCHANGED << parser, history, documented, log, changelog, commits, stderr, dupe, new >>

\* IsDocumented looking for "#N" without the brackets
IsDocumented_NoBrackets(text, r) == Contains(text, "#" \o FormatUnsigned(r.number))

\* changelog.contains(&format!("[#{}]", pr))
IsDocumented(text, r) == Contains(text, "[#" \o FormatUnsigned(r.number) \o "]")

\* Iterator::partition: (those the predicate holds of, the others), order kept
Partition(text, prs) ==
    [dupe |-> SelectSeq(prs, LAMBDA r : IsDocumented(text, r)),
     new  |-> SelectSeq(prs, LAMBDA r : ~IsDocumented(text, r))]

RECURSIVE SkipDiags(_)
SkipDiags(prs) ==
    IF prs = << >> THEN << >>
    ELSE << Diag("skipping PR", "", "", Head(prs).number) >> \o SkipDiags(Tail(prs))

\* find_prs: the collect succeeded; partition against the changelog and return
FindPrsPartition ==
    /\ parser = "main"
    /\ outcome = "running"
    /\ at > Len(commits)
    /\ dupe' = Partition(changelog, records).dupe
    /\ new' = Partition(changelog, records).new
    /\ stderr' = stderr \o SkipDiags(Partition(changelog, records).dupe)
    /\ outcome' = "returned"
    /\ UNCHANGED toolVars
    /\ UNCHANGED << parser, history, documented, log, changelog, commits, at, records, err >>

\* ------------------------------------------------------------------------
\* Subprocesses (CommandExt) and the control state of a tool
\* ------------------------------------------------------------------------
\* how an invocation can end: exit status 0, exit status 1, any other status
\* or a signal, or a failure to spawn
Statuses == {"ok", "one", "fail", "spawn"}

\* CommandExt::run_success: Ok(true), Ok(false) or Err
RunSuccess(st) ==
    CASE st = "ok"  -> "true"
      [] st = "one" -> "false"
      [] OTHER      -> "err"

\* CommandExt::run_stdout: Ok(stdout) or Err
RunStdoutOk(st) == st = "ok"

Go(next) == pc' = next /\ exit' = "running" /\ fault' = ""

Stop(how, why) == pc' = pc /\ exit' = how /\ fault' = why

Running(t, at_pc) == tool = t /\ exit = "running" /\ pc = at_pc

\* the outcomes of an HTTP call: a 2xx answer, or a failure (a transport
\* error or another status)
Http == {"ok", "error"}

\* ------------------------------------------------------------------------
\* The milestone tool (src/bin/milestone.rs)
\* ------------------------------------------------------------------------
Versions == {"1.80.0", "1.81.0"}

\* `git show -p <hash> src/tools/cargo`: the submodule change of a commit, and
\* the addition of the submodule
DiffMenu ==
    { "-Subproject commit 1a2b\n+Subproject commit 3c4d",
      "+Subproject commit 3c4d" }

ByHash(h) == CHOOSE c \in CommitMenu : c.hash = h

\* `git log --first-parent a...b` in src/tools/cargo: the commits of a range
RangeMenu ==
    { << ByHash("abc"), ByHash("5ca1e") >>,
      << ByHash("0d1e"), ByHash("fee1") >>,
      << ByHash("abc") >>,
      << ByHash("ace") >> }

SubprojectRe == "Subproject commit "

\* the end (exclusive) of the run [0-9a-f]* that starts at i
RECURSIVE HexEnd(_, _)
HexEnd(s, i) ==
    IF i < Len(s) /\ IsHex(At(s, i)) THEN HexEnd(s, i + 1) ELSE i

\* subproject_re.captures_iter(&diff): the captured hashes, in order
RECURSIVE SubprojectCaptures(_, _)
SubprojectCaptures(diff, from) ==
    LET m  == FindFrom(diff, SubprojectRe, from)
        hs == m + Len(SubprojectRe)
    IN  IF m < 0 THEN << >>
        ELSE IF HexEnd(diff, hs) = hs THEN SubprojectCaptures(diff, m + 1)
        ELSE << Slice(diff, hs, HexEnd(diff, hs)) >>
             \o SubprojectCaptures(diff, HexEnd(diff, hs))

RECURSIVE Numbers(_)
Numbers(prs) == IF prs = << >> THEN << >> ELSE << Head(prs).number >> \o Numbers(Tail(prs))

\* to_milestone.entry(version).or_default().push(pr_num)
Push(map, label, pr) ==
    [v \in DOMAIN map \cup {label} |->
        IF v = label
        THEN (IF label \in DOMAIN map THEN Append(map[label], pr) ELSE << pr >>)
        ELSE map[v]]

\* current_milestone's Ok value: None, or the milestone of the issue
CurrentMilestone_AlwaysNone(t, pr) == [some |-> FALSE, number |-> 0, title |-> ""]

CurrentMilestone(t, pr) ==
    IF t.issues[pr] = 0
    THEN [some |-> FALSE, number |-> 0, title |-> ""]
    ELSE [some |-> TRUE, number |-> t.issues[pr], title |-> TitleOf(t, t.issues[pr])]

\* `if !found { break; }` and the end of `for hash in log.lines()`
NextHash_NoBreak(was_found, k, n) == k < n

NextHash(was_found, k, n) == was_found /\ k < n

InitMilestone ==
    /\ IdleParser
    /\ IdleMilestone
    /\ IdleRelease
    /\ tool = "milestone"
    /\ pc = "start"
    /\ status = "none"
    /\ exit = "running"
    /\ fault = ""
    /\ tracker \in TrackerMenu

\* doit: the argument and the token
MStart ==
    /\ Running("milestone", "start")
    /\ status' = "none"
    /\ \E env \in {"ok", "no argument", "no token"} :
         CASE env = "no argument" -> Stop("error", "expected path")
           [] env = "no token"    -> Stop("panic", "GITHUB_TOKEN must be set")
           [] OTHER               -> Go("fetch")
    /\ UNCHANGED << tool, milestoneVars, parserVars, releaseVars >>

\* fetch: `git fetch upstream`, the bool of run_success is dropped
MFetch ==
    /\ Running("milestone", "fetch")
    /\ \E st \in Statuses :
         /\ status' = st
         /\ IF RunSuccess(st) = "err" THEN Stop("error", "subprocess") ELSE Go("log")
    /\ UNCHANGED << tool, milestoneVars, parserVars, releaseVars >>

\* determine_milestones: `git log --remotes=upstream -n 100 --format=%H`
MHostLog ==
    /\ Running("milestone", "log")
    /\ \E st \in Statuses :
         /\ status' = st
         /\ IF ~RunStdoutOk(st)
            THEN Stop("error", "subprocess") /\ UNCHANGED << hostCount, hostAt >>
            ELSE \E n \in 0..MaxHost :
                   /\ hostCount' = n
                   /\ hostAt' = IF n = 0 THEN 0 ELSE 1
                   /\ Go(IF n = 0 THEN "confirm" ELSE "show")
    /\ UNCHANGED << tool, version, queue, found, to_milestone, tracker, todo, milestone_num,
                    reported, patched, answer, requests,
                    parserVars, releaseVars >>

\* `git show -p {hash} src/tools/cargo` and the two Subproject captures
MShow ==
    /\ Running("milestone", "show")
    /\ \E st \in Statuses :
         /\ status' = st
         /\ IF ~RunStdoutOk(st) THEN Stop("error", "subprocess")
            ELSE \E diff \in DiffMenu :
                   IF Len(SubprojectCaptures(diff, 0)) = 2 THEN Go("version")
                   ELSE Stop("panic", "subproject captures")
    /\ UNCHANGED << tool, milestoneVars, parserVars, releaseVars >>

\* version_at: `git show {hash}:src/version`
MVersionAt ==
    /\ Running("milestone", "version")
    /\ \E st \in Statuses :
         /\ status' = st
         /\ IF ~RunStdoutOk(st) THEN Stop("error", "subprocess") /\ version' = version
            ELSE \E v \in Versions : version' = RunStdout(v \o "\n") /\ Go("cargolog")
    /\ UNCHANGED << tool, hostCount, hostAt, queue, found, to_milestone, tracker, todo,
                    milestone_num, reported, patched, answer, requests,
                    parserVars, releaseVars >>

\* `git log --first-parent a...b`, commits_in_log, assert!(!commits.is_empty())
MCargoLog ==
    /\ Running("milestone", "cargolog")
    /\ \E st \in Statuses :
         /\ status' = st
         /\ IF ~RunStdoutOk(st)
            THEN Stop("error", "subprocess") /\ UNCHANGED << queue, found >>
            ELSE \E range \in RangeMenu :
                   LET parsed == CommitsInLog(RunStdout(RenderLog(range))) IN
                   IF parsed.panicked \/ parsed.records = << >>
                   THEN /\ Stop("panic", IF parsed.panicked THEN "parser" ELSE "no commits")
                        /\ UNCHANGED << queue, found >>
                   ELSE /\ queue' = Numbers(parsed.records)
                        /\ found' = FALSE
                        /\ Go("query")
    /\ UNCHANGED << tool, hostCount, hostAt, version, to_milestone, tracker, todo,
                    milestone_num, reported, patched, answer, requests,
                    parserVars, releaseVars >>

\* one turn of `for (pr_num, _, _) in commits`: current_milestone, then skip or push
MCurrentMilestone ==
    /\ Running("milestone", "query")
    /\ queue /= << >>
    /\ status' = "none"
    /\ \E http \in Http :
         IF http = "error" \/ Head(queue) \notin DOMAIN tracker.issues
         THEN Stop("error", "http") /\ UNCHANGED << queue, found, to_milestone, reported >>
         ELSE /\ Go("query")
              /\ queue' = Tail(queue)
              /\ IF CurrentMilestone(tracker, Head(queue)).some
                 THEN /\ reported' = reported \cup
                           {[pr |-> Head(queue),
                             same |-> CurrentMilestone(tracker, Head(queue)).title = version]}
                      /\ UNCHANGED << found, to_milestone >>
                 ELSE /\ to_milestone' = Push(to_milestone, version, Head(queue))
                      /\ found' = TRUE
                      /\ reported' = reported
    /\ UNCHANGED << tool, hostCount, hostAt, version, tracker, todo, milestone_num, patched,
                    answer, requests,
                    parserVars, releaseVars >>

\* the end of the loop body: `if !found { break; }`, else the next hash
MEndOfCommit ==
    /\ Running("milestone", "query")
    /\ queue = << >>
    /\ status' = "none"
    /\ IF NextHash(found, hostAt, hostCount)
       THEN hostAt' = hostAt + 1 /\ Go("show")
       ELSE hostAt' = hostAt /\ Go("confirm")
    /\ UNCHANGED << tool, hostCount, version, queue, found, to_milestone, tracker, todo,
                    milestone_num, reported, patched, answer, requests,
                    parserVars, releaseVars >>

\* confirm taking a "no" for a "yes"
Declined_Never(said) == FALSE

\* confirm: `if !Confirm...interact()? { exit(1); }`
Declined(said) == said = "no"

\* confirm: "Ready to milestone?"
MConfirm ==
    /\ Running("milestone", "confirm")
    /\ status' = "none"
    /\ \E said \in {"yes", "no", "error"} :
         /\ answer' = said
         /\ CASE said = "error" -> Stop("error", "prompt") /\ todo' = todo
              [] Declined(said) -> Stop("exit1", "declined") /\ todo' = todo
              [] OTHER          -> Go("set") /\ todo' = DOMAIN to_milestone
    /\ UNCHANGED << tool, hostCount, hostAt, version, queue, found, to_milestone, tracker,
                    milestone_num, reported, patched, requests, parserVars, releaseVars >>

\* set_milestones: `for (version, prs) in milestones`, in the HashMap's order
MSetNext ==
    /\ Running("milestone", "set")
    /\ status' = "none"
    /\ IF todo = {}
       THEN Stop("ok", "") /\ UNCHANGED << version, todo >>
       ELSE \E v \in todo : version' = v /\ todo' = todo \ {v} /\ Go("post")
    /\ UNCHANGED << tool, hostCount, hostAt, queue, found, to_milestone, tracker,
                    milestone_num, reported, patched, answer, requests,
                    parserVars, releaseVars >>

\* get_milestone_num: POST /milestones; the tracker answers 422 for a title it has
MPostMilestone ==
    /\ Running("milestone", "post")
    /\ status' = "none"
    /\ \E http \in Http :
         IF http = "error"
         THEN Stop("error", "http") /\ UNCHANGED << tracker, milestone_num, queue >>
         ELSE IF TitleExists(tracker, version)
              THEN Go("list") /\ UNCHANGED << tracker, milestone_num, queue >>
              ELSE /\ tracker' = [tracker EXCEPT !.titles = Append(@, version)]
                   /\ milestone_num' = tracker.older + Len(tracker.titles) + 1
                   /\ queue' = to_milestone[version]
                   /\ Go("patch")
    /\ requests' = Append(requests, "POST")
    /\ UNCHANGED << tool, hostCount, hostAt, version, found, to_milestone, todo, reported,
                    patched, answer, parserVars, releaseVars >>

\* GET /milestones?state=all&per_page=100
PerPage == 100

\* the titles on the page the tracker returns, with their numbers
Page(t) ==
    { [title |-> t.titles[k], number |-> t.older + k] :
        k \in { j \in 1..Len(t.titles) : t.older + j <= PerPage } }

\* .find(|milestone| milestone["title"] == version): 0 stands for None
FindMilestone(t, title) ==
    LET hits == { m.number : m \in { x \in Page(t) : x.title = title } } IN
    IF hits = {} THEN 0 ELSE Min(hits)

\* get_milestone_num after a 422: list the milestones and look the title up
MListMilestones ==
    /\ Running("milestone", "list")
    /\ status' = "none"
    /\ \E http \in Http :
         IF http = "error"
         THEN Stop("error", "http") /\ UNCHANGED << milestone_num, queue >>
         ELSE IF FindMilestone(tracker, version) = 0
              THEN Stop("error", "could not find") /\ UNCHANGED << milestone_num, queue >>
              ELSE /\ milestone_num' = FindMilestone(tracker, version)
                   /\ queue' = to_milestone[version]
                   /\ Go("patch")
    /\ UNCHANGED << tool, hostCount, hostAt, version, found, to_milestone, tracker, todo,
                    reported, patched, answer, requests,
                    parserVars, releaseVars >>

\* set_milestones: PATCH /issues/{pr} with the milestone number
MPatch ==
    /\ Running("milestone", "patch")
    /\ queue /= << >>
    /\ status' = "none"
    /\ \E http \in Http :
         IF http = "error" \/ Head(queue) \notin DOMAIN tracker.issues
         THEN Stop("error", "http") /\ UNCHANGED << tracker, queue, patched >>
         ELSE /\ tracker' = [tracker EXCEPT !.issues[Head(queue)] = milestone_num]
              /\ patched' = patched \cup {Head(queue)}
              /\ queue' = Tail(queue)
              /\ Go("patch")
    /\ requests' = Append(requests, "PATCH")
    /\ UNCHANGED << tool, hostCount, hostAt, version, found, to_milestone, todo,
                    milestone_num, reported, answer, parserVars, releaseVars >>

\* set_milestones: the pull requests of a label are done
MPatchDone ==
    /\ Running("milestone", "patch")
    /\ queue = << >>
    /\ status' = "none"
    /\ Go("set")
    /\ UNCHANGED << tool, milestoneVars, parserVars, releaseVars >>

NextMilestone ==
    \/ MStart
    \/ MFetch
    \/ MHostLog
    \/ MShow
    \/ MVersionAt
    \/ MCargoLog
    \/ MCurrentMilestone
    \/ MEndOfCommit
    \/ MConfirm
    \/ MSetNext
    \/ MPostMilestone
    \/ MListMilestones
    \/ MPatch
    \/ MPatchDone

\* ------------------------------------------------------------------------
\* The release tool (src/main.rs): its pure parts
\* ------------------------------------------------------------------------
\* the pieces of s between the dots
RECURSIVE SplitDots(_)
SplitDots(s) ==
    LET d == Find(s, ".") IN
    IF d < 0 THEN << s >> ELSE << Slice(s, 0, d) >> \o SplitDots(Slice(s, d + 1, Len(s)))

\* a numeric identifier of semver: digits, no leading zero, within u64
IsNumeric(s) ==
    /\ s /= ""
    /\ DigitsEnd(s, 0) = Len(s)
    /\ (Len(s) = 1 \/ At(s, 0) /= "0")
    /\ Fits(Limbs(s), U64Max)

NoVersion == [ok |-> FALSE, major |-> << >>, minor |-> << >>, patch |-> << >>]

\* semver::Version::parse of MAJOR.MINOR.PATCH (the inputs carry no
\* pre-release and no build part)
ParseVersion(s) ==
    LET p == SplitDots(s) IN
    IF Len(p) = 3 /\ \A k \in 1..3 : IsNumeric(p[k])
    THEN [ok |-> TRUE, major |-> Limbs(p[1]), minor |-> Limbs(p[2]), patch |-> Limbs(p[3])]
    ELSE NoVersion

\* Version::to_string
FormatVersion(v) ==
    FormatUnsigned(v.major) \o "." \o FormatUnsigned(v.minor) \o "." \o FormatUnsigned(v.patch)

\* Version::new(0, version.minor + 1, 0) keeping the patch component
NextVersion_KeepPatch(v) ==
    [ok |-> TRUE, major |-> << 0 >>, minor |-> WrappingIncr(v.minor), patch |-> v.patch]

\* Version::new(0, version.minor + 1, 0)
NextVersion(v) ==
    [ok |-> TRUE, major |-> << 0 >>, minor |-> WrappingIncr(v.minor), patch |-> << 0 >>]

VersionMarker == "version = \""

\* the two ways the crate can be built: overflow checks on or off
Builds == {"debug", "release"}

\* bump_version_toml on the text read from Cargo.toml: a panic, or the text
\* to write and the next version
BumpVersionToml(toml, mode) ==
    LET m             == Find(toml, VersionMarker)
        version_start == m + 11
        q             == FindFrom(toml, "\"", version_start)
        parsed        == ParseVersion(Slice(toml, version_start, q))
        fail(why)     == [kind |-> "panic", why |-> why, toml |-> toml, next |-> NoVersion]
    IN  IF m < 0 THEN fail("version")
        ELSE IF q < 0 THEN fail("version end")
        ELSE IF ~parsed.ok THEN fail("valid version")
        ELSE IF parsed.major /= << 0 >> THEN fail("assert major")
        ELSE IF parsed.minor = U64Max /\ mode = "debug" THEN fail("overflow")
        ELSE [kind |-> "ok", why |-> "",
              toml |-> ReplaceRange(toml, version_start, q, FormatVersion(NextVersion(parsed))),
              next |-> NextVersion(parsed)]

\* time::Date::julian_day: the Julian day number of a Gregorian date
JulianDay(y, m, d) ==
    LET a  == IF m <= 2 THEN 1 ELSE 0
        yy == y + 4800 - a
        mm == m + 12 * a - 3
    IN  d + ((153 * mm + 2) \div 5) + 365 * yy + (yy \div 4) - (yy \div 100)
          + (yy \div 400) - 32045

\* time::Date::from_julian_day: [y, m, d] of a Julian day number
FromJulianDay(j) ==
    LET a == j + 32044
        b == (4 * a + 3) \div 146097
        c == a - ((146097 * b) \div 4)
        d == (4 * c + 3) \div 1461
        e == c - ((1461 * d) \div 4)
        m == (5 * e + 2) \div 153
    IN  [d |-> e - ((153 * m + 2) \div 5) + 1,
         m |-> m + 3 - 12 * (m \div 10),
         y |-> 100 * b + d - 4800 + (m \div 10)]

Pad2(n) == DigitChar(n \div 10) \o DigitChar(n % 10)

\* Date::format("%Y-%m-%d"), for years of four digits
FormatDate(date) ==
    Pad2(date.y \div 100) \o Pad2(date.y % 100) \o "-" \o Pad2(date.m) \o "-" \o Pad2(date.d)

\* next_nightly_date, `now` being the Julian day of today
NextNightlyDate(now) ==
    LET first             == JulianDay(2015, 5, 15)
        releases          == (now - first) \div 42
        next_nightly_days == (releases + 2) * 42
    IN  FormatDate(FromJulianDay(next_nightly_days + first - 1))

\* the start of the run [a-f0-9]* that ends before offset d, not before lo
RECURSIVE HexStart(_, _, _)
HexStart(s, lo, d) == IF d > lo /\ IsHex(At(s, d - 1)) THEN HexStart(s, lo, d - 1) ELSE d

\* head_re = "([a-f0-9]+)\.\.\.HEAD": captures_iter from offset `from`
RECURSIVE HeadReMatches(_, _)
HeadReMatches(s, from) ==
    LET d == FindFrom(s, "...HEAD", from)
        h == HexStart(s, from, d)
    IN  IF d < 0 THEN << >>
        ELSE IF h = d THEN HeadReMatches(s, d + 1)
        ELSE << [start |-> h, hash_end |-> d, end |-> d + 7] >> \o HeadReMatches(s, d + 7)

\* Regex::replace_all: the text with every match replaced
RECURSIVE ReplaceMatches(_, _, _, _)
ReplaceMatches(s, ms, from, with) ==
    IF ms = << >> THEN Slice(s, from, Len(s))
    ELSE Slice(s, from, Head(ms).start) \o with
         \o ReplaceMatches(s, Tail(ms), Head(ms).end, with)

\* to_links
RECURSIVE ToLinks(_)
ToLinks(prs) ==
    IF prs = << >> THEN ""
    ELSE "- " \o Head(prs).descr \o " \n  [#" \o FormatUnsigned(Head(prs).number) \o "]("
         \o Head(prs).url \o ")\n" \o ToLinks(Tail(prs))

\* the section prep_changelog inserts for the new nightly version
NewSection(minor, hash, links, date) ==
    "\n## Cargo 1." \o FormatUnsigned(minor) \o " (" \o date \o ")\n"
    \o "[" \o hash \o "...HEAD](https://github.com/rust-lang/cargo/compare/" \o hash
    \o "...HEAD)\n\n" \o links \o "\n\n### Added\n\n### Changed\n\n### Fixed\n\n"
    \o "### Nightly only\n\n"

\* find_prs: the map and the collect into a Result
RECURSIVE CollectPrs(_, _)
CollectPrs(pieces, acc) ==
    IF pieces = << >> THEN [kind |-> "ok", records |-> acc]
    ELSE LET r == FindPrsCommit(Head(pieces)) IN
         IF r.kind = "record" THEN CollectPrs(Tail(pieces), Append(acc, Record(r)))
         ELSE [kind |-> r.kind, records |-> << >>]

\* find_prs on the output of the log query: Ok(new), an Err or a panic
FindPrs(text, output) ==
    LET c == CollectPrs(SplitCommits(output), << >>) IN
    IF c.kind = "ok" THEN [kind |-> "ok", new |-> Partition(text, c.records).new]
    ELSE [kind |-> c.kind, new |-> << >>]

\* ------------------------------------------------------------------------
\* The release tool (src/main.rs): its inputs and its steps
\* ------------------------------------------------------------------------
\* Cargo.toml is given by its parts: the text before the first marker, the
\* numbers the marker is followed by (written with dots between them), and
\* the rest from the closing quote on.
ManifestMenu ==
    { [pre   |-> "[package]\nname = \"cargo\"\n",
       parts |-> << << 0 >>, << 7, 1 >>, << 0 >> >>,
       post  |-> "\n\n[dependencies]\nsemver = { version = \"1.0.3\" }\n"],
      [pre |-> "[package]\n", parts |-> << << 0 >>, << 9 >>, << 3 >> >>, post |-> "\n"],
      [pre |-> "", parts |-> << << 0 >>, << 0 >>, << 9 >> >>, post |-> ""],
      [pre |-> "[package]\n", parts |-> << << 1 >>, << 2 >>, << 3 >> >>, post |-> "\n"],
      [pre   |-> "[package]\nrust-", parts |-> << << 1 >>, << 7, 0 >> >>,
       post  |-> "\nversion = \"0.71.0\"\n"] }

RECURSIVE JoinDots(_)
JoinDots(parts) ==
    IF Len(parts) = 1 THEN FormatUnsigned(parts[1])
    ELSE FormatUnsigned(Head(parts)) \o "." \o JoinDots(Tail(parts))

RenderManifest(m) == m.pre \o VersionMarker \o JoinDots(m.parts) \o "\"" \o m.post

\* CHANGELOG.md is given by its parts
GoodChangelog ==
    [head |-> "# Changelog\n", from |-> "b60a1555", to |-> "b60a1555",
     added |-> "### Added\n", prs |-> << Pr123 >>, notes |-> ""]

ChangelogMenu ==
    { GoodChangelog,
      [GoodChangelog EXCEPT !.notes = "  See b60a1555...HEAD.\n"],
      [GoodChangelog EXCEPT !.to = "b60a1556"],
      [GoodChangelog EXCEPT !.head = "# Change log\n"],
      [GoodChangelog EXCEPT !.added = "### Changed\n"] }

RenderChangelogMd(c) ==
    c.head \o "\n## Cargo 1.80 (2024-07-25)\n" \o "[" \o c.from
    \o "...HEAD](https://github.com/rust-lang/cargo/compare/" \o c.to \o "...HEAD)\n\n"
    \o c.added \o "\n" \o RenderEntries(c.prs) \o c.notes

\* what `git config remote.upstream.url` and `git config remote.origin.url` print
UpstreamMenu == { "https://github.com/rust-lang/cargo.git\n", "git@github.com:ehuss/cargo.git\n" }

OriginMenu == { "git@github.com:ehuss/cargo.git\n", "git@github.com:ehuss/cargo\n" }

\* what `git ls-tree upstream/beta src/tools/cargo` prints
LsTreeMenu ==
    { "160000 commit 1a2b3c4d5e6f\tsrc/tools/cargo\n",
      "160000 commit 1a2b3c\tsrc/tools/cargo\n",
      "100644 blob 1a2b3c4d5e6f\tsrc/tools/cargo\n",
      "" }

\* what `git show-ref upstream/rust-1.N.0` prints
ShowRefMenu ==
    { "1a2b3c4d5e6f refs/remotes/upstream/rust-1.70.0\n",
      "1a2b3c refs/remotes/upstream/rust-1.70.0\n",
      "0f0f0f0f0f0f refs/remotes/upstream/rust-1.70.0\n" }

\* the commits of the nightly range and of the beta range
MasterLogs ==
    { << ByHash("abc"), ByHash("f00d") >>,
      << ByHash("abc"), ByHash("5ca1e") >>,
      << ByHash("beef") >>,
      << >> }

BetaLogs == { << ByHash("abc") >>, << ByHash("f00d") >>, << ByHash("0d1e") >>, << >> }

\* today's Julian day
Todays == { JulianDay(2024, 6, 14), JulianDay(2026, 11, 5) }

Io == {"ok", "error"}

Answers == {"yes", "no", "error"}

\* `if !cmd.run_success()? { exit(1) }`
Must(next) ==
    \E st \in Statuses :
      /\ status' = st
      /\ CASE RunSuccess(st) = "true"  -> Go(next)
           [] RunSuccess(st) = "false" -> Stop("exit1", "failed")
           [] OTHER                    -> Stop("error", "subprocess")

\* a prompt whose answer is not looked at
Ask_AnyAnswer(next) ==
    /\ status' = "none"
    /\ \E said \in Answers :
         /\ effects' = IF said = "error" THEN effects ELSE Append(effects, said \o " " \o pc)
         /\ IF said = "error" THEN Stop("error", "prompt") ELSE Go(next)

\* `if !Confirm::new()...interact()? { exit(1) }`; the answer given at the
\* prompt is noted in effects
Ask(next) ==
    /\ status' = "none"
    /\ \E said \in Answers :
         /\ effects' = IF said = "error" THEN effects ELSE Append(effects, said \o " " \o pc)
         /\ CASE said = "yes" -> Go(next)
              [] said = "no"  -> Stop("exit1", "declined")
              [] OTHER        -> Stop("error", "prompt")

Did(what) == effects' = IF exit' \in {"running", "ok"} THEN Append(effects, what) ELSE effects

InitRelease ==
    /\ IdleParser
    /\ IdleMilestone
    /\ tracker = [older |-> 0, titles |-> << >>, issues |-> NoMilestones]
    /\ tool = "release"
    /\ pc = "start"
    /\ status = "none"
    /\ exit = "running"
    /\ fault = ""
    /\ build \in Builds
    /\ manifest \in ManifestMenu
    /\ cargoToml = RenderManifest(manifest)
    /\ changelogParts \in ChangelogMenu
    /\ changelogMd = RenderChangelogMd(changelogParts)
    /\ next_vers = NoVersion
    /\ last_beta_hash = ""
    /\ draft = ""
    /\ master_prs = << >>
    /\ beta_prs = << >>
    /\ effects = << >>

\* doit: the argument
RStart ==
    /\ Running("release", "start")
    /\ status' = "none"
    /\ \E env \in {"ok", "no argument"} :
         IF env = "ok" THEN Go("revparse") ELSE Stop("error", "expected path")
    /\ UNCHANGED << tool, milestoneVars, parserVars, releaseVars >>

\* check_status: `git rev-parse --show-toplevel` and env::set_current_dir
RRevParse ==
    /\ Running("release", "revparse")
    /\ \E st \in Statuses, cd \in Io :
         /\ status' = st
         /\ IF ~RunStdoutOk(st) THEN Stop("error", "subprocess")
            ELSE IF cd = "error" THEN Stop("error", "set_current_dir")
            ELSE Go("diffindex")
    /\ UNCHANGED << tool, milestoneVars, parserVars, releaseVars >>

\* check_status: `git diff-index --quiet HEAD .`
RDiffIndex ==
    /\ Running("release", "diffindex")
    /\ \E st \in Statuses :
         /\ status' = st
         /\ CASE RunSuccess(st) = "true"  -> Go("upstream")
              [] RunSuccess(st) = "false" -> Go("porcelain")
              [] OTHER                    -> Stop("error", "subprocess")
    /\ UNCHANGED << tool, milestoneVars, parserVars, releaseVars >>

\* check_status: `git status --porcelain`, the bool of run_success is dropped
RStatusPorcelain ==
    /\ Running("release", "porcelain")
    /\ \E st \in Statuses :
         /\ status' = st
         /\ IF RunSuccess(st) = "err" THEN Stop("error", "subprocess") ELSE Go("dirty")
    /\ UNCHANGED << tool, milestoneVars, parserVars, releaseVars >>

\* check_status: "Do you want to continue?"
RDirtyConfirm ==
    /\ Running("release", "dirty")
    /\ Ask("upstream")
    /\ UNCHANGED << tool, milestoneVars, parserVars, releaseData >>

\* check_status: `git config remote.upstream.url`
RUpstream ==
    /\ Running("release", "upstream")
    /\ \E st \in Statuses :
         /\ status' = st
         /\ IF ~RunStdoutOk(st) THEN Stop("error", "subprocess")
            ELSE \E out \in UpstreamMenu :
                   IF EndsWith(RunStdout(out), "rust-lang/cargo.git") THEN Go("origin")
                   ELSE Stop("exit1", "upstream")
    /\ UNCHANGED << tool, milestoneVars, parserVars, releaseVars >>

\* check_status: `git config remote.origin.url`
ROrigin ==
    /\ Running("release", "origin")
    /\ \E st \in Statuses :
         /\ status' = st
         /\ IF ~RunStdoutOk(st) THEN Stop("error", "subprocess")
            ELSE \E out \in OriginMenu :
                   IF EndsWith(RunStdout(out), "/cargo.git") THEN Go("fetch")
                   ELSE Stop("exit1", "origin")
    /\ UNCHANGED << tool, milestoneVars, parserVars, releaseVars >>

\* create_branch: `git fetch upstream --tags`
RFetch ==
    /\ Running("release", "fetch")
    /\ Must("showref")
    /\ UNCHANGED << tool, milestoneVars, parserVars, releaseVars >>

\* create_branch: `git show-ref --verify --quiet refs/heads/version-bump`
RShowRef ==
    /\ Running("release", "showref")
    /\ \E st \in Statuses :
         /\ status' = st
         /\ IF RunSuccess(st) = "err" THEN Stop("error", "subprocess") ELSE Go("checkout")
    /\ UNCHANGED << tool, milestoneVars, parserVars, releaseVars >>

\* create_branch: `git checkout -B version-bump upstream/master`
RCheckout ==
    /\ Running("release", "checkout")
    /\ Must("cfgremote")
    /\ Did("checkout")
    /\ UNCHANGED << tool, milestoneVars, parserVars, build, manifest, changelogParts, cargoToml, changelogMd,
                    next_vers, last_beta_hash, draft, master_prs, beta_prs >>

\* create_branch: `git config branch.version-bump.remote origin`
RConfigRemote ==
    /\ Running("release", "cfgremote")
    /\ Must("cfgmerge")
    /\ UNCHANGED << tool, milestoneVars, parserVars, releaseVars >>

\* create_branch: `git config branch.version-bump.merge refs/heads/version-bump`
RConfigMerge ==
    /\ Running("release", "cfgmerge")
    /\ Must("bump")
    /\ UNCHANGED << tool, milestoneVars, parserVars, releaseVars >>

\* bump_version_toml
RBump ==
    /\ Running("release", "bump")
    /\ status' = "none"
    /\ \E rd \in Io, wr \in Io :
         LET r == BumpVersionToml(cargoToml, build) IN
         IF rd = "error" \/ r.kind = "panic" \/ wr = "error"
         THEN /\ CASE rd = "error"     -> Stop("error", "failed to read Cargo.toml")
                   [] r.kind = "panic" -> Stop("panic", r.why)
                   [] OTHER            -> Stop("error", "write")
              /\ UNCHANGED << cargoToml, next_vers >>
         ELSE /\ cargoToml' = r.toml
              /\ next_vers' = r.next
              /\ Go("inspect")
    /\ Did("write Cargo.toml")
    /\ UNCHANGED << tool, milestoneVars, parserVars, build, manifest, changelogParts, changelogMd,
                    last_beta_hash, draft, master_prs, beta_prs >>

\* wait_for_inspection: "Ready to commit?"
RInspect ==
    /\ Running("release", "inspect")
    /\ Ask("commitbump")
    /\ UNCHANGED << tool, milestoneVars, parserVars, releaseData >>

\* commit_bump: `git commit -a -m "Bump to {next_version}"`
RCommitBump ==
    /\ Running("release", "commitbump")
    /\ Must("prepfetch")
    /\ Did("commit bump")
    /\ UNCHANGED << tool, milestoneVars, parserVars, build, manifest, changelogParts, cargoToml, changelogMd,
                    next_vers, last_beta_hash, draft, master_prs, beta_prs >>

\* `next_version.minor - k` underflows
Underflows(minor, k) == Len(minor) = 1 /\ minor[1] < k

\* next_version.minor - 2
BetaMinor(minor) == WrappingDecr(WrappingDecr(minor))

\* prep_changelog: beta_minor_version, then `git fetch upstream --tags`
RPrepFetch ==
    /\ Running("release", "prepfetch")
    /\ IF Underflows(next_vers.minor, 2) /\ build = "debug"
       THEN status' = "none" /\ Stop("panic", "underflow")
       ELSE Must("lstree")
    /\ UNCHANGED << tool, milestoneVars, parserVars, releaseVars >>

\* the asserts on the line ls-tree printed
IsSubmoduleLine(parts) ==
    /\ Len(parts) >= 4
    /\ parts[1] = "160000"
    /\ parts[2] = "commit"
    /\ parts[4] = "src/tools/cargo"

\* prep_changelog: `git ls-tree upstream/beta src/tools/cargo` in the host repository
RLsTree ==
    /\ Running("release", "lstree")
    /\ \E st \in Statuses :
         /\ status' = st
         /\ IF ~RunStdoutOk(st)
            THEN Stop("error", "subprocess") /\ last_beta_hash' = last_beta_hash
            ELSE \E out \in LsTreeMenu :
                   LET parts == Tokens(RunStdout(out)) IN
                   IF IsSubmoduleLine(parts)
                   THEN last_beta_hash' = parts[3] /\ Go("showref2")
                   ELSE Stop("panic", "ls-tree") /\ last_beta_hash' = last_beta_hash
    /\ UNCHANGED << tool, milestoneVars, parserVars, build, manifest, changelogParts, cargoToml, changelogMd,
                    next_vers, draft, master_prs, beta_prs, effects >>

\* prep_changelog: `git show-ref upstream/rust-1.{beta_minor_version}.0`
RShowRefBranch ==
    /\ Running("release", "showref2")
    /\ \E st \in Statuses :
         /\ status' = st
         /\ IF ~RunStdoutOk(st) THEN Stop("error", "subprocess")
            ELSE \E out \in ShowRefMenu :
                   LET last_branch_hash == FirstToken(RunStdout(out)) IN
                   IF last_branch_hash = "" THEN Stop("panic", "hash")
                   ELSE IF last_beta_hash /= last_branch_hash THEN Go("betaprompt")
                   ELSE Go("readlog")
    /\ UNCHANGED << tool, milestoneVars, parserVars, releaseVars >>

\* prep_changelog: "Do you want to continue?" when the hashes differ
RBetaConfirm ==
    /\ Running("release", "betaprompt")
    /\ Ask("readlog")
    /\ UNCHANGED << tool, milestoneVars, parserVars, releaseData >>

\* the two anchors taken for equal without a look
SameAnchors_Unchecked(text, matches) == TRUE

\* assert_eq!(matches[0].get(0).unwrap().as_str(), matches[1].get(0).unwrap().as_str())
SameAnchors(text, matches) ==
    Slice(text, matches[1].start, matches[1].end) = Slice(text, matches[2].start, matches[2].end)

\* prep_changelog: the short hash, the read of CHANGELOG.md, the two anchors
\* and replace_all
RReadChangelog ==
    /\ Running("release", "readlog")
    /\ status' = "none"
    /\ \E rd \in Io :
         LET matches == HeadReMatches(changelogMd, 0)
             beta_hash_start == Slice(changelogMd, matches[1].start, matches[1].hash_end)
             beta_version == "rust-1." \o FormatUnsigned(BetaMinor(next_vers.minor)) \o ".0"
         IN  IF Len(last_beta_hash) < 8
             THEN Stop("panic", "short hash") /\ draft' = draft
             ELSE IF rd = "error"
             THEN Stop("error", "failed to read CHANGELOG.md") /\ draft' = draft
             ELSE IF Len(matches) /= 2
             THEN Stop("panic", "assert two anchors") /\ draft' = draft
             ELSE IF ~SameAnchors(changelogMd, matches)
             THEN Stop("panic", "assert same anchors") /\ draft' = draft
             ELSE /\ draft' = ReplaceMatches(changelogMd, matches, 0,
                                             beta_hash_start \o "..." \o beta_version)
                  /\ Go("findmaster")
    /\ UNCHANGED << tool, milestoneVars, parserVars, build, manifest, changelogParts, cargoToml, changelogMd,
                    next_vers, last_beta_hash, master_prs, beta_prs, effects >>

\* prep_changelog: find_prs for the nightly range
RFindMaster ==
    /\ Running("release", "findmaster")
    /\ \E st \in Statuses :
         /\ status' = st
         /\ IF ~RunStdoutOk(st)
            THEN Stop("error", "subprocess") /\ master_prs' = master_prs
            ELSE \E range \in MasterLogs :
                   LET r == FindPrs(draft, RunStdout(RenderLog(range))) IN
                   CASE r.kind = "ok"  -> master_prs' = r.new /\ Go("findbeta")
                     [] r.kind = "err" -> master_prs' = master_prs /\ Stop("error", "could not find")
                     [] OTHER          -> master_prs' = master_prs /\ Stop("panic", "find_prs")
    /\ UNCHANGED << tool, milestoneVars, parserVars, build, manifest, changelogParts, cargoToml, changelogMd,
                    next_vers, last_beta_hash, draft, beta_prs, effects >>

\* prep_changelog: find_prs for the beta range
RFindBeta ==
    /\ Running("release", "findbeta")
    /\ \E st \in Statuses :
         /\ status' = st
         /\ IF ~RunStdoutOk(st)
            THEN Stop("error", "subprocess") /\ beta_prs' = beta_prs
            ELSE \E range \in BetaLogs :
                   LET r == FindPrs(draft, RunStdout(RenderLog(range))) IN
                   CASE r.kind = "ok"  -> beta_prs' = r.new /\ Go("write")
                     [] r.kind = "err" -> beta_prs' = beta_prs /\ Stop("error", "could not find")
                     [] OTHER          -> beta_prs' = beta_prs /\ Stop("panic", "find_prs")
    /\ UNCHANGED << tool, milestoneVars, parserVars, build, manifest, changelogParts, cargoToml, changelogMd,
                    next_vers, last_beta_hash, draft, master_prs, effects >>

\* prep_changelog: the two insertions and the write of CHANGELOG.md
RWriteChangelog ==
    /\ Running("release", "write")
    /\ status' = "none"
    /\ \E now \in Todays, wr \in Io :
         LET added_idx == Find(draft, "### Added\n")
             with_beta == InsertStr(draft, added_idx, ToLinks(beta_prs))
             section   == NewSection(WrappingDecr(next_vers.minor), Slice(last_beta_hash, 0, 8),
                                     ToLinks(master_prs), NextNightlyDate(now))
         IN  IF added_idx < 0
             THEN Stop("panic", "couldn't find added") /\ UNCHANGED << draft, changelogMd >>
             ELSE IF ~StartsWith(with_beta, "# Changelog\n")
             THEN Stop("panic", "assert heading") /\ draft' = with_beta /\ changelogMd' = changelogMd
             ELSE IF Underflows(next_vers.minor, 1) /\ build = "debug"
             THEN Stop("panic", "underflow") /\ draft' = with_beta /\ changelogMd' = changelogMd
             ELSE IF wr = "error"
             THEN /\ Stop("error", "write")
                  /\ draft' = InsertStr(with_beta, 12, section)
                  /\ changelogMd' = changelogMd
             ELSE /\ draft' = InsertStr(with_beta, 12, section)
                  /\ changelogMd' = draft'
                  /\ Go("browse1")
    /\ Did("write CHANGELOG.md")
    /\ UNCHANGED << tool, milestoneVars, parserVars, build, manifest, changelogParts, cargoToml, next_vers,
                    last_beta_hash, master_prs, beta_prs >>

\* prep_changelog: open_browser(&master_urls)
ROpenMaster ==
    /\ Running("release", "browse1")
    /\ Must("notes1")
    /\ UNCHANGED << tool, milestoneVars, parserVars, releaseVars >>

\* prep_changelog: "Ready to continue?"
RNightlyConfirm ==
    /\ Running("release", "notes1")
    /\ Ask("browse2")
    /\ UNCHANGED << tool, milestoneVars, parserVars, releaseData >>

\* prep_changelog: open_browser(&beta_urls)
ROpenBeta ==
    /\ Running("release", "browse2")
    /\ Must("notes2")
    /\ UNCHANGED << tool, milestoneVars, parserVars, releaseVars >>

\* prep_changelog: "Ready to commit?"
RBetaNotesConfirm ==
    /\ Running("release", "notes2")
    /\ Ask("commitlog")
    /\ UNCHANGED << tool, milestoneVars, parserVars, releaseData >>

\* commit_changelog: `git commit -a -m "Update changelog for 1.{minor - 2}"`
RCommitChangelog ==
    /\ Running("release", "commitlog")
    /\ Must("push")
    /\ Did("commit changelog")
    /\ UNCHANGED << tool, milestoneVars, parserVars, build, manifest, changelogParts, cargoToml, changelogMd,
                    next_vers, last_beta_hash, draft, master_prs, beta_prs >>

\* create_pr: `git push`
RPush ==
    /\ Running("release", "push")
    /\ Must("openpr")
    /\ Did("push")
    /\ UNCHANGED << tool, milestoneVars, parserVars, build, manifest, changelogParts, cargoToml, changelogMd,
                    next_vers, last_beta_hash, draft, master_prs, beta_prs >>

\* create_pr: open_browser of the new-PR page, then doit returns Ok
ROpenPr ==
    /\ Running("release", "openpr")
    /\ \E st \in Statuses :
         /\ status' = st
         /\ CASE RunSuccess(st) = "true"  -> Stop("ok", "")
              [] RunSuccess(st) = "false" -> Stop("exit1", "failed")
              [] OTHER                    -> Stop("error", "subprocess")
    /\ Did("open pr")
    /\ UNCHANGED << tool, milestoneVars, parserVars, releaseData >>

NextRelease ==
    \/ RStart
    \/ RRevParse
    \/ RDiffIndex
    \/ RStatusPorcelain
    \/ RDirtyConfirm
    \/ RUpstream
    \/ ROrigin
    \/ RFetch
    \/ RShowRef
    \/ RCheckout
    \/ RConfigRemote
    \/ RConfigMerge
    \/ RBump
    \/ RInspect
    \/ RCommitBump
    \/ RPrepFetch
    \/ RLsTree
    \/ RShowRefBranch
    \/ RBetaConfirm
    \/ RReadChangelog
    \/ RFindMaster
    \/ RFindBeta
    \/ RWriteChangelog
    \/ ROpenMaster
    \/ RNightlyConfirm
    \/ ROpenBeta
    \/ RBetaNotesConfirm
    \/ RCommitChangelog
    \/ RPush
    \/ ROpenPr

NextParser ==
    \/ SplitLog
    \/ CommitsInLogNext
    \/ CommitsInLogReturn
    \/ FindPrsNext
    \/ FindPrsPartition

SpecParser == InitParser /\ [][NextParser]_vars

SpecMilestone == InitMilestone /\ [][NextMilestone]_vars

SpecRelease == InitRelease /\ [][NextRelease]_vars

\* the two tools
Init == InitMilestone \/ InitRelease

Next == NextMilestone \/ NextRelease

Spec == Init /\ [][Next]_vars

\* ------------------------------------------------------------------------
\* Properties of the log parser
\* ------------------------------------------------------------------------
\* the digits of a commit's first line denote a u32
FitsU32(c) == c.number /= << >>

IsMarkerCommit(c) == c.kind \in {"auto", "mergepr"} /\ FitsU32(c)

\* the commit whose piece the iterator yields next
Current == history[at]

\* the parser takes the turn for the piece at `at`
Turn == outcome = "running" /\ at <= Len(commits) /\ at <= Len(history)

Last(seq) == seq[Len(seq)]

\* C1: on a log whose commits all have an "Auto merge of #N" or "Merge pull
\* request #N" first message line, commits_in_log neither panics nor skips: it
\* has one record per commit handled, the i-th with the number and the url of
\* the i-th commit, and returns one record per commit of the log.
C1_OneRecordPerBlockInOrder ==
    (parser = "lib" /\ \A i \in 1..Len(history) : IsMarkerCommit(history[i]))
    => /\ outcome /= "panicked"
       /\ stderr = << >>
       /\ outcome = "running" => (Len(commits) = Len(history) /\ Len(records) = at - 1)
       /\ outcome = "returned" => Len(records) = Len(history)
       /\ \A i \in 1..Len(records) :
            /\ records[i].number = history[i].number
            /\ records[i].url = PullUrl \o FormatUnsigned(history[i].number)

C1_Witness ==
    /\ parser = "lib"
    /\ outcome = "returned"
    /\ Len(history) = MaxBlocks
    /\ \A i \in 1..Len(history) : IsMarkerCommit(history[i])
    /\ \E i, j \in 1..Len(history) : history[i].kind = "auto" /\ history[j].kind = "mergepr"
    /\ Len(records) = MaxBlocks

\* C2: a turn of commits_in_log on a commit whose first message line carries
\* a marker phrase adds a record whose description is the commit's second
\* message line, or the empty string when it has none.
C2_DescriptionIsSecondLine ==
    [][(parser = "lib" /\ Turn /\ IsMarkerCommit(Current))
       => /\ Len(records') = Len(records) + 1
          /\ Last(records').descr = (IF Current.more = << >> THEN "" ELSE Current.more[1])]_vars

C2_Witness ==
    /\ parser = "lib"
    /\ outcome = "returned"
    /\ Len(history) = 2
    /\ history[1].kind = "mergepr" /\ history[1].more = << >> /\ history[1].gap /= ""
    /\ history[2].kind = "auto" /\ FitsU32(history[2]) /\ Len(history[2].more) = 2
    /\ Len(records) = 2
    /\ records[1].descr = ""
    /\ records[2].descr = history[2].more[1]

ContainsMarker(text) == Contains(text, "Auto merge of") \/ Contains(text, "Merge pull request")

\* C3: a turn of commits_in_log on a commit whose first message line has no
\* marker phrase and ends with "(#N)" adds a record with number N whose
\* description is the text before "(#N)", right-trimmed.
C3_ParenDescription ==
    [][(parser = "lib" /\ Turn /\ Current.kind = "paren" /\ FitsU32(Current)
        /\ ~ContainsMarker(Current.lead))
       => /\ Len(records') = Len(records) + 1
          /\ Last(records').number = Current.number
          /\ Last(records').descr = TrimEnd(Current.lead)]_vars

C3_Witness ==
    /\ parser = "lib"
    /\ outcome = "returned"
    /\ Len(history) = 2
    /\ history[1].kind = "paren" /\ history[1].lead = ""
    /\ history[2].kind = "paren" /\ FitsU32(history[2])
    /\ Len(history[2].lead) > Len(TrimEnd(history[2].lead)) + 1
    /\ Len(records) = 2
    /\ records[2].descr = TrimEnd(history[2].lead)

\* C4: a turn of either parser on a commit whose first message line matches
\* neither convention adds no record and reports that line and the commit's
\* hash: commits_in_log on stderr, going on to the next commit; find_prs as
\* the Err that ends the collect.
C4_UnmatchedLineReported ==
    [][(Turn /\ Current.kind = "plain")
       => /\ records' = records
          /\ parser = "lib" =>
               /\ stderr' = Append(stderr, Diag("could not find", Current.lead,
                                                Current.hash, << >>))
               /\ at' = at + 1
               /\ outcome' = "running"
          /\ parser = "main" =>
               /\ outcome' = "error"
               /\ err' = [line |-> Current.lead, hash |-> Current.hash]]_vars

C4_Witness ==
    /\ parser = "lib"
    /\ outcome = "returned"
    /\ Len(history) = 2
    /\ history[1].kind = "plain"
    /\ history[2].kind = "auto"
    /\ Len(stderr) = 1
    /\ Len(records) = 1

\* C5: when find_prs returns, the returned list holds exactly the parsed
\* records whose number the changelog does not document, the skipped list
\* exactly those it documents, both in log order.
C5_PartitionByChangelog ==
    (parser = "main" /\ outcome = "returned")
    => /\ Len(records) = Len(history)
       /\ \A i \in 1..Len(records) : records[i].number = history[i].number
       /\ new = SelectSeq(records, LAMBDA r : r.number \notin Range(documented.prs))
       /\ dupe = SelectSeq(records, LAMBDA r : r.number \in Range(documented.prs))
       /\ Range(new) \cap Range(dupe) = {}
       /\ Range(new) \cup Range(dupe) = Range(records)

C5_Witness ==
    /\ parser = "main"
    /\ outcome = "returned"
    /\ Len(records) = 2
    /\ Len(new) = 1
    /\ Len(dupe) = 1
    /\ new[1] = records[1]
    /\ documented.notes /= ""

\* ------------------------------------------------------------------------
\* Properties of the milestone tool
\* ------------------------------------------------------------------------
\* the steps of determine_milestones' loop, and the steps after it
Walking == {"show", "version", "cargolog", "query"}

AfterWalk == {"confirm", "set", "post", "list", "patch"}

Queued == UNION { Range(to_milestone[v]) : v \in DOMAIN to_milestone }

RECURSIVE CountIn(_, _)
CountIn(map, labels) ==
    IF labels = {} THEN 0
    ELSE LET v == CHOOSE x \in labels : TRUE
         IN  Len(map[v]) + CountIn(map, labels \ {v})

QueuedCount(map) == CountIn(map, DOMAIN map)

\* C6: get_milestone_num for a title the tracker already has resolves to the
\* number of that milestone and leaves the tracker's milestones unchanged.
\* (pc = "list" is reached exactly when the POST was answered 422, that is
\* when the title exists; a failed GET is the only excuse.)
C6_ExistingTitleResolves ==
    [][(tool = "milestone" /\ exit = "running" /\ pc = "list" /\ fault' /= "http")
        => /\ pc' = "patch"
           /\ milestone_num' = NumberOf(tracker, version)
           /\ tracker'.titles = tracker.titles
           /\ tracker'.older = tracker.older]_vars

\* C9: the walk moves to the next host commit only from a commit that queued
\* a pull request, it ends at the first commit that queued none, and after
\* its end no host commit is inspected.
C9_StopsAtFirstCommitWithoutQueued ==
    [][tool = "milestone" =>
        /\ (hostAt' /= hostAt /\ hostAt >= 1)
              => (hostAt' = hostAt + 1 /\ found /\ pc = "query" /\ queue = << >>)
        /\ (found' /\ ~found)
              => QueuedCount(to_milestone') = QueuedCount(to_milestone) + 1
        /\ (found /\ ~found') => pc = "cargolog"
        /\ (pc = "query" /\ queue = << >> /\ ~found /\ pc' /= pc)
              => (pc' = "confirm" /\ hostAt' = hostAt)
        /\ (pc \in AfterWalk) => (pc' \in AfterWalk /\ hostAt' = hostAt)]_vars

\* the walk stopped at a commit that queued nothing although commits remain,
\* after an earlier commit had queued one
C9_Witness ==
    /\ tool = "milestone"
    /\ pc = "confirm"
    /\ ~found
    /\ 1 < hostAt
    /\ hostAt < hostCount
    /\ Queued /= {}

\* C10: a pull request reported with a milestone is neither queued nor
\* patched, and each addition to the queue is the pull request just
\* reported without a milestone, under the label of the commit at hand.
C10_MilestonedNeverQueued ==
    [][tool = "milestone" =>
        /\ \A r \in reported' : r.pr \notin Queued' /\ r.pr \notin patched'
        /\ patched' \subseteq Queued'
        /\ (to_milestone' /= to_milestone)
              => /\ pc = "query" /\ queue /= << >>
                 /\ tracker.issues[Head(queue)] = 0
                 /\ to_milestone' = Push(to_milestone, version, Head(queue))
                 /\ version \in Versions
        /\ (pc = "query" /\ queue /= << >> /\ tracker.issues[Head(queue)] /= 0)
              => to_milestone' = to_milestone]_vars

\* both kinds of report were made, another pull request was queued and patched
C10_Witness ==
    /\ tool = "milestone"
    /\ \E r \in reported : r.same
    /\ \E r \in reported : ~r.same
    /\ patched /= {}
    /\ exit = "ok"

\* ------------------------------------------------------------------------
\* Properties of the release tool
\* ------------------------------------------------------------------------
\* the manifest's version is 0.m.p
IsZeroMajor(m) == Len(m.parts) = 3 /\ m.parts[1] = << 0 >>

\* the manifest with 0.(m+1).0 in the place of its version
Bumped(m) ==
    m.pre \o "version = \"0." \o FormatUnsigned(Incr(m.parts[2])) \o ".0\"" \o m.post

\* C7: bump_version_toml turns a manifest of version 0.m.p into the same
\* manifest with version 0.(m+1).0 and returns that version; for any other
\* version the run ends there and Cargo.toml stays as it was.  No other step
\* changes Cargo.toml.  (A failure to read or to write the file is the only
\* other way the step can end.)
C7_BumpMinorResetPatch ==
    [][/\ (tool = "release" /\ exit = "running" /\ pc = "bump") =>
             IF IsZeroMajor(manifest)
             THEN \/ /\ exit' = "running"
                     /\ cargoToml' = Bumped(manifest)
                     /\ next_vers' = [ok |-> TRUE, major |-> << 0 >>,
                                      minor |-> Incr(manifest.parts[2]), patch |-> << 0 >>]
                  \/ /\ exit' = "error"
                     /\ cargoToml' = cargoToml
             ELSE /\ exit' \in {"panic", "error"}
                  /\ cargoToml' = cargoToml
       /\ (cargoToml' /= cargoToml) => (tool = "release" /\ pc = "bump")
       /\ (tool = "release" /\ exit' = "running" /\ pc' = "inspect" /\ pc = "bump")
             => IsZeroMajor(manifest)]_vars

\* 0.71.0 was bumped to 0.72.0 and the dependency's version is as it was
C7_Witness ==
    /\ tool = "release"
    /\ pc = "inspect"
    /\ manifest.parts = << << 0 >>, << 7, 1 >>, << 0 >> >>
    /\ cargoToml = "[package]\nname = \"cargo\"\nversion = \"0.72.0\"\n\n[dependencies]\n"
                   \o "semver = { version = \"1.0.3\" }\n"
    /\ next_vers.minor = << 7, 2 >>

\* ------------------------------------------------------------------------
\* Properties of both tools
\* ------------------------------------------------------------------------
\* C8: a subprocess invocation that fails to spawn or ends with a non-zero
\* status ends the run: the tool takes no further step.
C8_FailedSubprocessIsFatal ==
    [][status' \in {"one", "fail", "spawn"} => exit' /= "running"]_vars

\* ------------------------------------------------------------------------
\* Properties of the milestone tool: the prompt
\* ------------------------------------------------------------------------
\* C11: a POST /milestones or a PATCH /issues/{id} is sent, and the tracker is
\* changed, only after "Ready to milestone?" was answered yes; a run that
\* was declined, or that ended before the prompt, has sent no such request.
C11_NoRequestBeforeYes ==
    [][tool = "milestone" =>
        /\ (requests' /= requests \/ tracker' /= tracker) => answer = "yes"
        /\ (answer' /= "yes") => (requests' = << >> /\ tracker' = tracker)
        /\ (answer' /= answer) => (answer = "none" /\ pc = "confirm")
        /\ (exit' /= "running" /\ pc' \in Walking \cup {"start", "fetch", "log", "confirm"})
              => requests' = << >>]_vars

\* the run was declined after a pull request had been queued: nothing was sent
C11_Witness ==
    /\ tool = "milestone"
    /\ answer = "no"
    /\ exit = "exit1"
    /\ Queued /= {}
    /\ requests = << >>

\* ------------------------------------------------------------------------
\* Properties of the release tool: the order of its steps
\* ------------------------------------------------------------------------
\* the place in doit of the step at position p: 1 status check, 2 branch
\* creation, 3 version bump, 4 confirmation, 5 bump commit, 6 changelog
\* preparation, 7 changelog commit, 8 push, 9 open the new-PR URL
Phase(p) ==
    CASE p = "start" -> 0
      [] p \in {"revparse", "diffindex", "porcelain", "dirty", "upstream", "origin"} -> 1
      [] p \in {"fetch", "showref", "checkout", "cfgremote", "cfgmerge"} -> 2
      [] p = "bump" -> 3
      [] p = "inspect" -> 4
      [] p = "commitbump" -> 5
      [] p \in {"prepfetch", "lstree", "showref2", "betaprompt", "readlog", "findmaster",
                "findbeta", "write", "browse1", "notes1", "browse2", "notes2"} -> 6
      [] p = "commitlog" -> 7
      [] p = "push" -> 8
      [] p = "openpr" -> 9

\* what a complete run does and is told, in order; the two prompts that are
\* shown only on a dirty tree or on differing beta hashes are left out
StepOrder ==
    << "checkout", "write Cargo.toml", "yes inspect", "commit bump", "write CHANGELOG.md",
       "yes notes1", "yes notes2", "commit changelog", "push", "open pr" >>

Optional == {"yes dirty", "yes betaprompt"}

IsPrefix(a, b) == Len(a) <= Len(b) /\ SubSeq(b, 1, Len(a)) = a

IsNo(what) == SubSeq(what, 1, 3) = "no "

\* C12: the steps of a run come in doit's order; what the run does is a
\* prefix of: branch, bump, "Ready to commit?" yes, bump commit, changelog,
\* both release-note prompts yes, changelog commit, push, new-PR page; and a
\* declined prompt is the last thing of the run.
C12_StepsInOrder ==
    [][tool = "release" =>
        /\ Phase(pc') \in {Phase(pc), Phase(pc) + 1}
        /\ LET done == SelectSeq(effects', LAMBDA e : e \notin Optional /\ ~IsNo(e))
           IN  /\ IsPrefix(done, StepOrder)
               /\ Len(done) >= (CASE Phase(pc') <= 2 -> 0
                                  [] Phase(pc') = 3  -> 1
                                  [] Phase(pc') = 4  -> 2
                                  [] Phase(pc') = 5  -> 3
                                  [] Phase(pc') = 6  -> 4
                                  [] OTHER           -> Phase(pc'))
        /\ \A k \in 1..Len(effects') :
             IsNo(effects'[k]) => (k = Len(effects') /\ exit' = "exit1")
        /\ (exit /= "running") => FALSE]_vars

\* a complete run: every step was taken, in order, with both optional prompts
C12_Witness ==
    /\ tool = "release"
    /\ exit = "ok"
    /\ effects = << "yes dirty", "checkout", "write Cargo.toml", "yes inspect", "commit bump",
                    "yes betaprompt", "write CHANGELOG.md", "yes notes1", "yes notes2",
                    "commit changelog", "push", "open pr" >>

\* ------------------------------------------------------------------------
\* Properties of the log parser: a commit without message lines
\* ------------------------------------------------------------------------
\* C13: a turn on a commit that has no message line is handled as a turn on
\* an unmatched first line is: commits_in_log adds no record, prints a
\* diagnostic and goes on to the next commit; find_prs ends with an Err.
C13_NoMessageLinesReported ==
    [][(Turn /\ Current.kind = "none") =>
          /\ records' = records
          /\ parser = "lib" => /\ outcome' = "running"
                               /\ at' = at + 1
                               /\ Len(stderr') = Len(stderr) + 1
          /\ parser = "main" => outcome' = "error"]_vars

\* ------------------------------------------------------------------------
\* Properties of the release tool: the write of CHANGELOG.md
\* ------------------------------------------------------------------------
\* CHANGELOG.md was made with two equal "<hash>...HEAD" anchors and no other
TwoSameAnchors(c) == c.from = c.to /\ ~Contains(c.notes, "...HEAD")

Writes(done) == Len(SelectSeq(done, LAMBDA e : e = "write CHANGELOG.md"))

\* C14: CHANGELOG.md is changed by one step only, the write at the end of
\* prep_changelog's editing, at most once in a run, and then the file as read
\* had two equal anchors and both find_prs calls had returned Ok; a run that
\* ends at the anchor check or in either find_prs leaves the file as it was.
C14_ChangelogWrittenOnce ==
    [][tool = "release" =>
        /\ (changelogMd' /= changelogMd)
              => /\ pc = "write"
                 /\ changelogMd = RenderChangelogMd(changelogParts)
                 /\ TwoSameAnchors(changelogParts)
        /\ Writes(effects') <= 1
        /\ (Writes(effects') = 0) => changelogMd' = RenderChangelogMd(changelogParts)
        /\ (pc' = "write" /\ pc /= "write")
              => (pc = "findbeta" /\ status' = "ok" /\ TwoSameAnchors(changelogParts))
        /\ (pc' = "findbeta" /\ pc /= "findbeta") => (pc = "findmaster" /\ status' = "ok")
        /\ (pc' = "findmaster" /\ pc /= "findmaster")
              => (pc = "readlog" /\ TwoSameAnchors(changelogParts))
        /\ (pc \in {"readlog", "findmaster", "findbeta"} /\ exit' /= "running")
              => changelogMd' = RenderChangelogMd(changelogParts)]_vars

\* the file was written, with a link for a pull request of each range
C14_Witness ==
    /\ tool = "release"
    /\ pc = "browse1"
    /\ Writes(effects) = 1
    /\ changelogMd /= RenderChangelogMd(changelogParts)
    /\ master_prs /= << >>
    /\ beta_prs /= << >>

====
